---- MODULE Spec2Model ----
(***************************************************************************)
(* TB X-ray detection: the tb-detection edge-function handlers (every      *)
(* variant kept in the repository), the storage bucket and tb_detections   *)
(* table they share, the browser-side hooks useTBDetection and useTBModel, *)
(* the FileUpload dropzone, the Index page, the TBChatbot and the tensor   *)
(* layout of the preprocessing functions.                                  *)
(*                                                                         *)
(* Numbers that are fractions in the code (model scores, probabilities,    *)
(* Math.random() draws) are kept in hundredths: 70 stands for 0.70, so     *)
(* Math.round(x * 100) of a score x is the stored integer itself.          *)
(***************************************************************************)
EXTENDS Integers, Sequences, FiniteSets, TLC

VARIABLES
    variant,        \* which handler source is deployed as the tb-detection function
    clock,          \* Date.now()
    storage,        \* objects of the 'xray-uploads' bucket
    tb_detections,  \* rows of the tb_detections table
    req,            \* per request: position in the handler, locals, response
    session,        \* useTBDetection: the ort.InferenceSession state ("null" or a handle)
    isLoading,      \* useTBDetection: isLoading state
    error,          \* useTBDetection: error state
    wasmPaths,      \* ort.env.wasm.wasmPaths
    sessionsCreated,\* how many InferenceSession.create calls have succeeded
    call,           \* per detectTB call: position and locals
    model,          \* useTBModel: the model state ("null" or "session")
    isModelLoading, \* useTBModel: isLoading state
    modelError,     \* useTBModel: error state
    load,           \* useTBModel: position of loadModel and the blob it downloaded
    parsed,         \* blobs that were handed to ort.InferenceSession.create
    isProcessing,   \* FileUpload: isProcessing state
    dropError,      \* FileUpload: error state
    drop,           \* FileUpload onDrop / predict: position and locals
    uploads,        \* onUpload(file, prediction, confidence) calls of the latest drop
    codec,          \* a preprocessing run: implementation, image and the tensor built
    page,           \* Index page: isAnalyzing, result and handleImageUpload's position
    chat            \* TBChatbot: messages, inputValue, isLoading, handleSendMessage

serverVars == <<variant, clock, storage, tb_detections, req>>
hookVars == <<session, isLoading, error, wasmPaths, sessionsCreated, call>>
modelVars == <<model, isModelLoading, modelError, load, parsed,
               isProcessing, dropError, drop, uploads>>
uiVars == <<codec, page, chat>>
vars == <<variant, clock, storage, tb_detections, req,
          session, isLoading, error, wasmPaths, sessionsCreated, call,
          model, isModelLoading, modelError, load, parsed,
          isProcessing, dropError, drop, uploads,
          codec, page, chat>>

\* Two requests in flight are enough for every pairwise interleaving.
Requests == {"r1", "r2"}

\* Date.now() advances at most this many milliseconds during a run.
MaxClock == 1

(***************************************************************************)
(* The handler variants of the repository.                                 *)
(***************************************************************************)
Variants == {"onnxFilename", "pipeline", "chatOnnx", "placeholder", "vision", "client"}

\* The model backend each handler invokes inside its try block.
Backend(v) ==
    CASE v = "onnxFilename" -> "onnx"
      [] v = "chatOnnx"     -> "onnx"
      [] v = "express"      -> "onnx"
      [] v = "pipeline"     -> "pipeline"
      [] v = "vision"       -> "vision"
      [] v = "placeholder"  -> "placeholder"
      [] v = "heuristic"    -> "heuristic"
      [] v = "indicator"    -> "heuristic"
      [] OTHER              -> "none"

BackendKinds == {"onnx", "pipeline", "vision", "placeholder", "heuristic"}

\* let prediction = 'normal'; let confidence = 75 | 0
InitialConfidence(v) ==
    IF v \in {"pipeline", "placeholder"} THEN 0 ELSE 75

(***************************************************************************)
(* Inputs.                                                                 *)
(***************************************************************************)
\* Uploaded files: a name (characters) and the bytes (two files share bytes).
Files ==
    { [name |-> <<"T", "B", "1">>,                content |-> "imgA"],
      [name |-> <<"n", "o", "r", "m", "a", "l">>, content |-> "imgB"],
      [name |-> <<"x", "r", "a", "y">>,           content |-> "imgA"] }

NoFile == [name |-> <<>>, content |-> "none"]

\* imageBuffer.byteLength / file.size of the images: two chest X-rays, a text file
\* renamed to .png, an image over 10 MiB, and a file of no bytes.
ByteLength(content) ==
    CASE content = "imgA" -> 104857
      [] content = "imgB" -> 20030
      [] content = "junk" -> 40
      [] content = "huge" -> 10485761
      [] OTHER            -> 0

\* What each backend answers for one request: "ok", "unavailable" (download,
\* network, non-2xx) or "fault" (the model ran and threw or gave unusable output).
Outcomes == {"ok", "unavailable", "fault"}

Environments ==
    { [b \in BackendKinds |-> "ok"],
      [b \in BackendKinds |-> "unavailable"],
      [b \in BackendKinds |->
          CASE b = "onnx" -> "unavailable" [] b = "vision" -> "fault" [] OTHER -> "ok"],
      [b \in BackendKinds |->
          CASE b = "onnx" -> "fault" [] b = "pipeline" -> "fault" [] OTHER -> "unavailable"] }

\* Image bytes a user can drop on the dropzone or post to the function.
Contents == {"imgA", "imgB", "junk", "huge", "empty"}

\* Whether the browser's Image / a PNG decoder can decode the bytes.
Decodable(content) == content \in {"imgA", "imgB", "huge"}

\* naturalWidth / naturalHeight of the decoded image.
Width(content) ==
    CASE content = "imgA" -> 1024 [] content = "imgB" -> 100
      [] content = "huge" -> 4000 [] OTHER -> 0

Height(content) ==
    CASE content = "imgA" -> 1024 [] content = "imgB" -> 80
      [] content = "huge" -> 3000 [] OTHER -> 0

NoEnvironment == [b \in BackendKinds |-> "none"]

\* Raw outputs [normal, tuberculosis] of the ONNX model, in hundredths.
ModelOutputs == { <<30, 70>>, <<200, 50>>, <<50, 50>> }

\* Scores [normal, tuberculosis] of the transformers.js classifier, in hundredths.
PipelineResults == { <<30, 70>>, <<90, 10>> }

\* The JSON object the vision model answers with (parsed, not validated).
VisionAnswers ==
    { [prediction |-> "tuberculosis", confidence |-> 85],
      [prediction |-> "normal",       confidence |-> 72],
      [prediction |-> "inconclusive", confidence |-> 150] }

\* prediction / confidence fields of the request body of the save-only handler.
ClientBodies ==
    { [prediction |-> "tuberculosis", confidence |-> 88],
      [prediction |-> "unknown",      confidence |-> 0],
      [prediction |-> "normal",       confidence |-> 250] }

\* Values Math.random() returns, in hundredths.
RandomDraws == { 10, 85 }


(***************************************************************************)
(* Pure helpers of the handlers.                                           *)
(***************************************************************************)
Max(a, b) == IF a >= b THEN a ELSE b

Min(a, b) == IF a <= b THEN a ELSE b

Abs(x) == IF x < 0 THEN -x ELSE x

\* What arithmetic on undefined gives (Math.round((1 - undefined) * 100), 0 / 0):
\* every comparison with it is false.
NaN == -1

Gt(a, b) == a # NaN /\ b # NaN /\ a > b

Lt(a, b) == a # NaN /\ b # NaN /\ a < b

\* One decimal digit of the time stamp as a character.
DigitChar(n) ==
    CASE n = 0 -> "0" [] n = 1 -> "1" [] n = 2 -> "2" [] n = 3 -> "3" [] n = 4 -> "4"
      [] n = 5 -> "5" [] n = 6 -> "6" [] n = 7 -> "7" [] n = 8 -> "8" [] OTHER -> "9"

\* const fileName = `${Date.now()}-${imageFile.name}`
FileName(now, name) == <<DigitChar(now), "-">> \o name

NoName == <<>>

\* String.prototype.toLowerCase on the characters the inputs use.
LowerChar(c) ==
    CASE c = "T" -> "t" [] c = "B" -> "b" [] c = "N" -> "n" [] OTHER -> c

ToLowerCase(s) == [i \in 1..Len(s) |-> LowerChar(s[i])]

\* String.prototype.includes
Includes(s, sub) ==
    \E i \in 1..(Len(s) - Len(sub) + 1) : SubSeq(s, i, i + Len(sub) - 1) = sub

\* Math.exp of a score in hundredths, times 1000 (rounded).
Exp1000(x) ==
    CASE x = 30  -> 1350
      [] x = 50  -> 1649
      [] x = 70  -> 2014
      [] x = 200 -> 7389
      [] OTHER   -> 1000

\* Math.round(100 * num / den) for num, den > 0.
RoundPercent(num, den) == (200 * num + den) \div (2 * den)

NormalLabel == "normal"
TuberculosisLabel == "tuberculosis"

NoResult == [prediction |-> "", confidence |-> 0]

\* tbProb > normalProb; Math.round(Math.max(normalProb, tbProb) * 100): no softmax.
RawScoreResult(out) ==
    [prediction |-> IF out[2] > out[1] THEN TuberculosisLabel ELSE NormalLabel,
     confidence |-> Max(out[1], out[2])]

\* softmax, probabilities[1] > 0.5, Math.round(Math.max(...probabilities) * 100)
SoftmaxResult(out) ==
    LET e0 == Exp1000(out[1])
        e1 == Exp1000(out[2])
    IN  [prediction |-> IF 2 * e1 > e0 + e1 THEN TuberculosisLabel ELSE NormalLabel,
         confidence |-> RoundPercent(Max(e0, e1), e0 + e1)]

\* randomFactor = (imageSize % 100) / 100; > 0.5; Math.floor(70 + randomFactor * 25)
PlaceholderResult(content) ==
    LET randomFactor == ByteLength(content) % 100
    IN  [prediction |-> IF randomFactor > 50 THEN TuberculosisLabel ELSE NormalLabel,
         confidence |-> 70 + (randomFactor * 25) \div 100]

\* prediction = analysis.prediction; confidence = analysis.confidence
VisionResult(answer) ==
    [prediction |-> answer.prediction, confidence |-> answer.confidence]

\* darkPixelSum / float32Data.length and brightPixelSum / float32Data.length of the
\* tensor built from the image (from the decoded pixels, or from the raw bytes when
\* the PNG decode throws), in thousandths.  An image of no bytes gives a tensor of
\* NaN (imagePixels[i % 0] / 255), whose entries are in neither sum.
DarkRatio(content) ==
    CASE content = "imgA" -> 180 [] content = "imgB" -> 50
      [] content = "junk" -> 100 [] content = "huge" -> 20
      [] OTHER -> 0

BrightRatio(content) ==
    CASE content = "imgA" -> 100 [] content = "imgB" -> 300
      [] content = "junk" -> 0   [] content = "huge" -> 400
      [] OTHER -> 0

\* tbScore (in tenths) from darkRatio, contrastScore and brightRatio; tbScore > 0.5;
\* Math.floor(55 + tbScore * 40) or Math.floor(55 + (1 - tbScore) * 40)
HeuristicResult(content) ==
    LET darkRatio     == DarkRatio(content)
        brightRatio   == BrightRatio(content)
        contrastScore == Abs(darkRatio - brightRatio)
        tbScore == (IF darkRatio > 150 THEN 4 ELSE 0)
                   + (IF contrastScore > 50 THEN 3 ELSE 0)
                   + (IF brightRatio < 200 THEN 3 ELSE 0)
    IN  IF tbScore > 5
        THEN [prediction |-> TuberculosisLabel, confidence |-> 55 + tbScore * 4]
        ELSE [prediction |-> NormalLabel, confidence |-> 55 + (10 - tbScore) * 4]

\* darkPixels / (sampleSize / 4) and brightPixels / (sampleSize / 4) over the first
\* 1000 raw bytes, in thousandths.
SampleDark(content) ==
    CASE content = "imgA" -> 300 [] content = "imgB" -> 500
      [] content = "junk" -> 600 [] OTHER -> 100

SampleBright(content) ==
    CASE content = "imgA" -> 100 [] content = "imgB" -> 100
      [] content = "junk" -> 0   [] OTHER -> 400

\* tbIndicators / normalIndicators from the byte length and the sampled bytes, then
\* the prediction; with no bytes sampleSize is 0 and both ratios are 0 / 0.
IndicatorResult(content) ==
    LET byteLength  == ByteLength(content)
        sampleSize  == Min(1000, byteLength)
        darkRatio   == IF sampleSize = 0 THEN NaN ELSE SampleDark(content)
        brightRatio == IF sampleSize = 0 THEN NaN ELSE SampleBright(content)
        tbIndicators == IF Gt(darkRatio, 400) THEN 2 ELSE 0
        normalIndicators ==
              (IF byteLength > 100000 /\ byteLength < 5000000 THEN 1 ELSE 0)
            + (IF ~Gt(darkRatio, 400) /\ Lt(darkRatio, 200) THEN 2 ELSE 0)
            + (IF Gt(brightRatio, 300) THEN 1 ELSE 0)
        totalScore == tbIndicators + normalIndicators
    IN  IF totalScore = 0
        THEN [prediction |-> NormalLabel, confidence |-> 65]
        ELSE IF 10 * tbIndicators > 6 * totalScore
        THEN [prediction |-> TuberculosisLabel,
              confidence |-> 75 + (20 * tbIndicators) \div totalScore]
        ELSE [prediction |-> NormalLabel,
              confidence |-> 70 + (25 * (totalScore - tbIndicators)) \div totalScore]

\* What the try block leaves in prediction / confidence when the backend succeeds.
BackendResult(v, content, out, answer) ==
    CASE v = "onnxFilename" -> RawScoreResult(out)
      [] v = "pipeline"     -> RawScoreResult(out)
      [] v = "chatOnnx"     -> SoftmaxResult(out)
      [] v = "placeholder"  -> PlaceholderResult(content)
      [] v = "vision"       -> VisionResult(answer)
      [] v = "heuristic"    -> HeuristicResult(content)
      [] v = "indicator"    -> IndicatorResult(content)
      [] v = "express"      -> RawScoreResult(out)
      [] OTHER              -> NoResult

\* Which estimator a successful try block is.
BackendSource(v) ==
    CASE v = "placeholder"                -> "placeholder"
      [] v \in {"heuristic", "indicator"} -> "heuristic"
      [] OTHER                            -> "model"

\* The backend outputs a handler can receive.
OutputsOf(v) ==
    CASE v = "pipeline" -> PipelineResults
      [] v \in {"onnxFilename", "chatOnnx", "express"} -> ModelOutputs
      [] OTHER -> { <<0, 0>> }

AnswersOf(v) == IF v = "vision" THEN VisionAnswers ELSE { NoResult }

AllOutputs == ModelOutputs \cup PipelineResults \cup { <<0, 0>> }
AllAnswers == VisionAnswers \cup { NoResult }

\* Fallback to conservative prediction: prediction = 'normal'; confidence = 70
ConservativeConfidence == 70

ConservativeFallback ==
    [rethrow |-> FALSE, prediction |-> NormalLabel, confidence |-> ConservativeConfidence,
     source |-> "conservative", stages |-> <<"conservative">>]

\* Filename analysis, then a random draw "with medical safety bias".
FilenameFallback(fileName, d1, d2) ==
    LET lower == ToLowerCase(fileName)
        isLabeledTB ==
            \/ Includes(lower, <<"t","u","b","e","r","c","u","l","o","s","i","s">>)
            \/ Includes(lower, <<"t","b">>)
        isLabeledNormal == Includes(lower, <<"n","o","r","m","a","l">>)
    IN  IF isLabeledTB
        THEN [rethrow |-> FALSE, prediction |-> TuberculosisLabel, confidence |-> 85,
              source |-> "filename", stages |-> <<"filename">>]
        ELSE IF isLabeledNormal
        THEN [rethrow |-> FALSE, prediction |-> NormalLabel, confidence |-> 90,
              source |-> "filename", stages |-> <<"filename">>]
        ELSE [rethrow |-> FALSE,
              prediction |-> IF d1 > 80 THEN TuberculosisLabel ELSE NormalLabel,
              confidence |-> (d2 * 20) \div 100 + 70,
              source |-> "random", stages |-> <<"filename", "random">>]

\* throw new Error(`Model inference failed: ${errorMessage}`)
Rethrow ==
    [rethrow |-> TRUE, prediction |-> "", confidence |-> 0,
     source |-> "none", stages |-> <<>>]

\* randomValue > 0.7 ? tuberculosis, Math.floor(Math.random() * 15) + 70
\*                   : normal, Math.floor(Math.random() * 20) + 75
RandomFallback(d1, d2) ==
    IF d1 > 70
    THEN [rethrow |-> FALSE, prediction |-> TuberculosisLabel,
          confidence |-> (d2 * 15) \div 100 + 70,
          source |-> "random", stages |-> <<"random">>]
    ELSE [rethrow |-> FALSE, prediction |-> NormalLabel,
          confidence |-> (d2 * 20) \div 100 + 75,
          source |-> "random", stages |-> <<"random">>]

\* The catch block of the try around the backend.
Recover(v, fileName, d1, d2) ==
    CASE v = "onnxFilename"                -> FilenameFallback(fileName, d1, d2)
      [] v \in {"chatOnnx", "vision"}      -> ConservativeFallback
      [] v \in {"heuristic", "indicator"}  -> RandomFallback(d1, d2)
      [] OTHER                             -> Rethrow


(***************************************************************************)
(* The useTBDetection hook: its callers and their calls.                   *)
(***************************************************************************)
Calls == {"c1", "c2"}

NoSession == "null"

\* A detectTB call that has not been made (or has returned).
NoCall == [pc |-> "idle", activeSession |-> NoSession, result |-> NoResult]

(***************************************************************************)
(* The useTBModel hook and the FileUpload component that calls it.         *)
(***************************************************************************)
\* What the 'tb-models' bucket answers for tb_model1.onnx: the model, an HTML
\* page (first byte '<'), or nothing.
Blobs == {"onnx", "html", "empty"}

\* modelBlob.size
BlobSize(blob) ==
    CASE blob = "onnx" -> 9437184
      [] blob = "html" -> 1024
      [] OTHER         -> 0

\* new Uint8Array(modelBuffer)[0]
FirstByte(blob) ==
    CASE blob = "onnx" -> 8
      [] blob = "html" -> 60
      [] OTHER         -> 0

NoBlob == "none"

\* loadModel has not started (the component is not mounted yet).
NoLoad == [pc |-> "mount", blob |-> NoBlob]

NoTensor == [length |-> 0, dims |-> <<>>]

\* No onDrop is running.
NoDrop ==
    [pc |-> "idle", content |-> "none", tensor |-> NoTensor,
     predictions |-> <<>>, result |-> NoResult,
     inFlight |-> 0]       \* predict calls that have not settled yet

\* No preprocessing has run.
NoCodec == [pc |-> "idle", impl |-> "none", image |-> 0, tensor |-> <<>>]

\* The Index page as mounted: useState(null) for result, useState(false) for
\* isAnalyzing, no handleImageUpload running.
NoPage ==
    [kind |-> "server", pc |-> "idle", isAnalyzing |-> FALSE,
     result |-> NoResult, outcome |-> "none"]

\* TBChatbot as mounted: the greeting, an empty input, isLoading false.
NoChat ==
    [messages   |-> << [isBot |-> TRUE, text |-> <<"H", "e", "l", "l", "o", "!">>] >>,
     inputValue |-> <<>>,
     isLoading  |-> FALSE,
     pending    |-> 0,         \* invoke('tb-chat') calls that have not settled
     last       |-> "none"]    \* what the latest handleSendMessage did

(***************************************************************************)
(* Requests.                                                               *)
(***************************************************************************)
NoResponse == [status |-> 0, keys |-> {}, prediction |-> "", confidence |-> 0]

\* A request that has not arrived yet.
Idle ==
    [pc            |-> "idle",
     file          |-> NoFile,
     fileName      |-> NoName,
     prediction    |-> "",
     confidence    |-> 0,
     response      |-> NoResponse,
     err           |-> "none",        \* which step ended the request with an error
     storageOk     |-> TRUE,          \* the bucket accepted writes for this request
     health        |-> NoEnvironment, \* what each backend answers for this request
     upstream      |-> "none",        \* "responsive" | "stalled" while awaiting
     sel           |-> "NotStarted",  \* NotStarted | Trying | Succeeded | AllFailed
     invoked       |-> <<>>,          \* estimators run for this request, in order
     source        |-> "none",        \* the estimator prediction/confidence came from
     backendResult |-> NoResult,      \* what the model backend returned, if it did
     tensors       |-> 0,             \* ort.Tensor objects built for this request
     runs          |-> 0]             \* session.run calls made for this request

\* return new Response(JSON.stringify({ error: ... }), { status })
ErrorResponse(r, status, err, keys) ==
    [Idle EXCEPT !.pc = "done",
                 !.err = err,
                 !.storageOk = req[r].storageOk,
                 !.health = req[r].health,
                 !.sel = req[r].sel,
                 !.invoked = req[r].invoked,
                 !.tensors = req[r].tensors,
                 !.runs = req[r].runs,
                 !.response = [NoResponse EXCEPT !.status = status, !.keys = keys]]

Init ==
    /\ variant \in Variants
    /\ clock = 0
    /\ storage = {}
    /\ tb_detections = {}
    /\ req = [r \in Requests |-> Idle]
    /\ session = NoSession
    /\ isLoading = FALSE
    /\ error = "null"
    /\ wasmPaths = "default"
    /\ sessionsCreated = 0
    /\ call = [c \in Calls |-> NoCall]
    /\ model = "null"
    /\ isModelLoading = TRUE
    /\ modelError = "null"
    /\ load = NoLoad
    /\ parsed = {}
    /\ isProcessing = FALSE
    /\ dropError = ""
    /\ drop = NoDrop
    /\ uploads = {}
    /\ codec = NoCodec
    /\ page = NoPage
    /\ chat = NoChat

\* Date.now() moves on between two steps.
Tick ==
    /\ clock < MaxClock
    /\ clock' = clock + 1
    /\ UNCHANGED <<variant, storage, tb_detections, req>>
    /\ UNCHANGED hookVars
    /\ UNCHANGED uiVars
    /\ UNCHANGED modelVars

\* A handler that reads no authorization header.
RequiresAuthNever(v) == FALSE

\* Whether the handler reads the authorization header (part_008 does not).
RequiresAuth(v) == v # "indicator"

\* Authorization, form parsing and the file name: everything before the upload.
Receive(r, auth, file, body) ==
    /\ req[r].pc = "idle"
    /\ req' = [req EXCEPT ![r] =
          IF auth = "none" /\ RequiresAuth(variant)
          THEN ErrorResponse(r, 401, "auth", {"error"})
          ELSE IF auth = "invalid" /\ RequiresAuth(variant)
          THEN ErrorResponse(r, 401, "auth", {"error"})
          ELSE IF file = NoFile
          THEN ErrorResponse(r, 400, "noimage", {"error"})
          ELSE [Idle EXCEPT !.pc = "upload",
                            !.file = file,
                            !.fileName = FileName(clock, file.name),
                            !.prediction = IF variant = "client" THEN body.prediction ELSE "",
                            !.confidence = IF variant = "client" THEN body.confidence ELSE 0,
                            !.source = IF variant = "client" THEN "client" ELSE "none"]]
    /\ UNCHANGED <<variant, clock, storage, tb_detections>>
    /\ UNCHANGED hookVars
    /\ UNCHANGED uiVars
    /\ UNCHANGED modelVars

\* supabase.storage.from('xray-uploads').upload(fileName, imageFile): no upsert,
\* so an existing object of that name is an error, like an unhealthy bucket.
Upload(r, ok) ==
    /\ req[r].pc = "upload"
    /\ LET taken == \E o \in storage : o.name = req[r].fileName
       IN  IF ~ok \/ taken
           THEN /\ req' = [req EXCEPT ![r] =
                      [ErrorResponse(r, 500, "upload", {"error", "details"})
                          EXCEPT !.storageOk = ok]]
                /\ UNCHANGED storage
           ELSE /\ storage' = storage \cup
                      {[name |-> req[r].fileName, content |-> req[r].file.content]}
                /\ req' = [req EXCEPT ![r] =
                      IF variant = "client"
                      THEN [@ EXCEPT !.pc = "insert"]
                      ELSE [@ EXCEPT !.pc = "try",
                                     !.prediction = NormalLabel,
                                     !.confidence = InitialConfidence(variant)]]
    /\ UNCHANGED <<variant, clock, tb_detections>>
    /\ UNCHANGED hookVars
    /\ UNCHANGED uiVars
    /\ UNCHANGED modelVars

\* The try block starts its awaits (model download, image download, session,
\* inference, or the fetch to the AI gateway).  No timeout is set on any of them.
CallBackend(r, health, up) ==
    /\ req[r].pc = "try"
    /\ req' = [req EXCEPT ![r] =
          [@ EXCEPT !.pc = "await",
                    !.health = health,
                    !.upstream = up,
                    !.sel = "Trying",
                    !.invoked = Append(@, Backend(variant))]]
    /\ UNCHANGED <<variant, clock, storage, tb_detections>>
    /\ UNCHANGED hookVars
    /\ UNCHANGED uiVars
    /\ UNCHANGED modelVars

\* TryOutcome with the fallback assignments placed after the try block instead of
\* inside its catch: they run when the backend answered, too.
TryOutcomeFallsThrough(v, outcome, result, caught) ==
    [sel |-> IF outcome = "ok" THEN "Succeeded" ELSE "AllFailed",
     rethrow |-> caught.rethrow,
     prediction |-> caught.prediction, confidence |-> caught.confidence,
     source |-> caught.source, stages |-> caught.stages,
     backendResult |-> IF outcome = "ok" THEN result ELSE NoResult]

\* try { ... } catch (modelError) { ... }: the try block's values when the backend
\* answered, the catch block's otherwise.
TryOutcome(v, outcome, result, caught) ==
    IF outcome = "ok"
    THEN [sel |-> "Succeeded", rethrow |-> FALSE,
          prediction |-> result.prediction, confidence |-> result.confidence,
          source |-> BackendSource(v), stages |-> <<>>, backendResult |-> result]
    ELSE [sel |-> "AllFailed", rethrow |-> caught.rethrow,
          prediction |-> caught.prediction, confidence |-> caught.confidence,
          source |-> caught.source, stages |-> caught.stages, backendResult |-> NoResult]

\* session.run with the retry the handlers do not have: a run that threw is
\* repeated once on the same tensor.
SessionRunsRetried(v, outcome) ==
    IF Backend(v) # "onnx" THEN 0
    ELSE CASE outcome = "ok" -> 1 [] outcome = "fault" -> 2 [] OTHER -> 0

\* new ort.Tensor('float32', ..., [1, 3, 224, 224]): built in the ONNX try blocks
\* once the model and the image were downloaded and the session was created.
TensorsBuilt(v, outcome) ==
    IF Backend(v) = "onnx" /\ outcome \in {"ok", "fault"} THEN 1 ELSE 0

\* await session.run(feeds): the statement after the tensor, once, whether it
\* returns or throws.
SessionRuns(v, outcome) ==
    IF Backend(v) # "onnx" THEN 0
    ELSE CASE outcome = "ok" -> 1 [] outcome = "fault" -> 1 [] OTHER -> 0

\* The awaits of the try block settle: the backend's result, or the catch block.
BackendReturn(r, out, answer, d1, d2) ==
    /\ req[r].pc = "await"
    /\ req[r].upstream = "responsive"
    /\ out \in OutputsOf(variant)
    /\ answer \in AnswersOf(variant)
    /\ LET outcome == req[r].health[Backend(variant)]
           result  == BackendResult(variant, req[r].file.content, out, answer)
           caught  == Recover(variant, req[r].fileName, d1, d2)
           after   == TryOutcome(variant, outcome, result, caught)
       IN  req' = [req EXCEPT ![r] =
              IF after.rethrow
              THEN [ErrorResponse(r, 500, "model", {"error", "details"})
                       EXCEPT !.sel = after.sel,
                              !.tensors = TensorsBuilt(variant, outcome),
                              !.runs = SessionRuns(variant, outcome)]
              ELSE [@ EXCEPT !.pc = "insert",
                             !.tensors = TensorsBuilt(variant, outcome),
                             !.runs = SessionRuns(variant, outcome),
                             !.upstream = "none",
                             !.sel = after.sel,
                             !.prediction = after.prediction,
                             !.confidence = after.confidence,
                             !.source = after.source,
                             !.invoked = @ \o after.stages,
                             !.backendResult = after.backendResult]]
    /\ UNCHANGED <<variant, clock, storage, tb_detections>>
    /\ UNCHANGED hookVars
    /\ UNCHANGED uiVars
    /\ UNCHANGED modelVars

\* The JSON body of a 200 response.
ResultKeys == {"prediction", "confidence", "image", "detection_id"}

\* Insert with the response sent without looking at the insert's error.
InsertRespondsAnyway(r, ok) ==
    /\ req[r].pc = "insert"
    /\ tb_detections' = IF ok
                        THEN tb_detections \cup
                               {[image_path |-> req[r].fileName,
                                 prediction |-> req[r].prediction,
                                 confidence |-> req[r].confidence]}
                        ELSE tb_detections
    /\ req' = [req EXCEPT ![r] =
          [@ EXCEPT !.pc = "done",
                    !.response = [status     |-> 200,
                                  keys       |-> ResultKeys,
                                  prediction |-> req[r].prediction,
                                  confidence |-> req[r].confidence]]]
    /\ UNCHANGED <<variant, clock, storage>>
    /\ UNCHANGED hookVars
    /\ UNCHANGED uiVars
    /\ UNCHANGED modelVars

\* Insert into tb_detections, then the 200 response with the same values.
Insert(r, ok) ==
    /\ req[r].pc = "insert"
    /\ IF ~ok
       THEN /\ req' = [req EXCEPT ![r] =
                  ErrorResponse(r, 500, "db", {"error", "details"})]
            /\ UNCHANGED tb_detections
       ELSE /\ tb_detections' = tb_detections \cup
                  {[image_path |-> req[r].fileName,
                    prediction |-> req[r].prediction,
                    confidence |-> req[r].confidence]}
            /\ req' = [req EXCEPT ![r] =
                  [@ EXCEPT !.pc = "done",
                            !.response = [status     |-> 200,
                                          keys       |-> ResultKeys,
                                          prediction |-> req[r].prediction,
                                          confidence |-> req[r].confidence]]]
    /\ UNCHANGED <<variant, clock, storage>>
    /\ UNCHANGED hookVars
    /\ UNCHANGED uiVars
    /\ UNCHANGED modelVars

Next ==
    \/ Tick
    \/ \E r \in Requests, auth \in {"none", "invalid", "valid"},
          file \in Files \cup {NoFile}, body \in ClientBodies :
            Receive(r, auth, file, body)
    \/ \E r \in Requests, ok \in BOOLEAN : Upload(r, ok)
    \/ \E r \in Requests, health \in Environments, up \in {"responsive", "stalled"} :
            CallBackend(r, health, up)
    \/ \E r \in Requests, out \in AllOutputs, answer \in AllAnswers,
          d1 \in RandomDraws, d2 \in RandomDraws :
            BackendReturn(r, out, answer, d1, d2)
    \/ \E r \in Requests, ok \in BOOLEAN : Insert(r, ok)

Spec == Init /\ [][Next]_vars

(***************************************************************************)
(* One request with any input: every handler, the two heuristic ones        *)
(* included, and files that are empty, undecodable or over 10 MiB.          *)
(***************************************************************************)
HeuristicVariants == {"heuristic", "indicator"}

\* The Express server's POST /tb-detection.
ExpressVariants == {"express"}

InputFiles ==
    Files \cup
    { [name |-> <<"e", ".", "p", "n", "g">>, content |-> "empty"],
      [name |-> <<"j", ".", "p", "n", "g">>, content |-> "junk"],
      [name |-> <<"h", ".", "p", "n", "g">>, content |-> "huge"] }

InitInputs ==
    /\ variant \in Variants \cup HeuristicVariants \cup ExpressVariants
    /\ clock = 0
    /\ storage = {}
    /\ tb_detections = {}
    /\ req = [r \in Requests |-> Idle]
    /\ session = NoSession
    /\ isLoading = FALSE
    /\ error = "null"
    /\ wasmPaths = "default"
    /\ sessionsCreated = 0
    /\ call = [c \in Calls |-> NoCall]
    /\ model = "null"
    /\ isModelLoading = TRUE
    /\ modelError = "null"
    /\ load = NoLoad
    /\ parsed = {}
    /\ isProcessing = FALSE
    /\ dropError = ""
    /\ drop = NoDrop
    /\ uploads = {}
    /\ codec = NoCodec
    /\ page = NoPage
    /\ chat = NoChat

NextInputs ==
    \/ \E auth \in {"none", "invalid", "valid"},
          file \in InputFiles \cup {NoFile}, body \in ClientBodies :
            Receive("r1", auth, file, body)
    \/ \E ok \in BOOLEAN : Upload("r1", ok)
    \/ \E health \in Environments, up \in {"responsive", "stalled"} :
            CallBackend("r1", health, up)
    \/ \E out \in AllOutputs, answer \in AllAnswers,
          d1 \in RandomDraws, d2 \in RandomDraws :
            BackendReturn("r1", out, answer, d1, d2)
    \/ \E ok \in BOOLEAN : Insert("r1", ok)

SpecInputs == InitInputs /\ [][NextInputs]_vars


(***************************************************************************)
(* useTBDetection: loadModel and detectTB.                                 *)
(***************************************************************************)
\* Softmax, tbProb > normalProb, Math.round(Math.max(normalProb, tbProb) * 100)
DetectResult(out) ==
    LET e0 == Exp1000(out[1])
        e1 == Exp1000(out[2])
    IN  [prediction |-> IF e1 > e0 THEN TuberculosisLabel ELSE NormalLabel,
         confidence |-> RoundPercent(Max(e0, e1), e0 + e1)]

\* The catch blocks: setError(message); setIsLoading(false); throw err
Throw(c, message) ==
    /\ error' = message
    /\ isLoading' = FALSE
    /\ call' = [call EXCEPT ![c] = [@ EXCEPT !.pc = "failed"]]

\* detectTB up to its first await: reads session, and starts loadModel when it is null.
DetectTB(c) ==
    /\ call[c].pc = "idle"
    /\ isLoading' = TRUE
    /\ error' = "null"
    /\ IF session = NoSession
       THEN /\ wasmPaths' = "cdn"
            /\ call' = [call EXCEPT ![c] = [NoCall EXCEPT !.pc = "fetch"]]
       ELSE /\ wasmPaths' = wasmPaths
            /\ call' = [call EXCEPT ![c] =
                  [NoCall EXCEPT !.pc = "preprocess", !.activeSession = session]]
    /\ UNCHANGED <<session, sessionsCreated>>
    /\ UNCHANGED serverVars
    /\ UNCHANGED uiVars
    /\ UNCHANGED modelVars

\* await fetch(modelUrl); await response.arrayBuffer()
FetchReturn(c, ok) ==
    /\ call[c].pc = "fetch"
    /\ IF ok
       THEN /\ call' = [call EXCEPT ![c] = [@ EXCEPT !.pc = "create"]]
            /\ UNCHANGED <<isLoading, error>>
       ELSE Throw(c, "Failed to fetch model")
    /\ UNCHANGED <<session, wasmPaths, sessionsCreated>>
    /\ UNCHANGED serverVars
    /\ UNCHANGED uiVars
    /\ UNCHANGED modelVars

\* await ort.InferenceSession.create(modelBuffer); setSession; setIsLoading(false)
CreateReturn(c, ok) ==
    /\ call[c].pc = "create"
    /\ IF ok
       THEN /\ session' = c
            /\ sessionsCreated' = sessionsCreated + 1
            /\ isLoading' = FALSE
            /\ error' = error
            /\ call' = [call EXCEPT ![c] =
                  [@ EXCEPT !.pc = "preprocess", !.activeSession = c]]
       ELSE /\ Throw(c, "Failed to load model")
            /\ UNCHANGED <<session, sessionsCreated>>
    /\ UNCHANGED wasmPaths
    /\ UNCHANGED serverVars
    /\ UNCHANGED uiVars
    /\ UNCHANGED modelVars

\* await preprocessImage(imageFile)
PreprocessReturn(c, ok) ==
    /\ call[c].pc = "preprocess"
    /\ IF ok
       THEN /\ call' = [call EXCEPT ![c] = [@ EXCEPT !.pc = "run"]]
            /\ UNCHANGED <<isLoading, error>>
       ELSE Throw(c, "Failed to load image")
    /\ UNCHANGED <<session, wasmPaths, sessionsCreated>>
    /\ UNCHANGED serverVars
    /\ UNCHANGED uiVars
    /\ UNCHANGED modelVars

\* await activeSession.run(feeds), then the result
RunReturn(c, ok, out) ==
    /\ call[c].pc = "run"
    /\ IF ok
       THEN /\ call' = [call EXCEPT ![c] =
                  [@ EXCEPT !.pc = "done", !.result = DetectResult(out)]]
            /\ isLoading' = FALSE
            /\ error' = error
       ELSE Throw(c, "Detection failed")
    /\ UNCHANGED <<session, wasmPaths, sessionsCreated>>
    /\ UNCHANGED serverVars
    /\ UNCHANGED uiVars
    /\ UNCHANGED modelVars

\* The caller has the result (or the exception); it may call again.
Settle(c) ==
    /\ call[c].pc \in {"done", "failed"}
    /\ call' = [call EXCEPT ![c] = NoCall]
    /\ UNCHANGED <<session, isLoading, error, wasmPaths, sessionsCreated>>
    /\ UNCHANGED serverVars
    /\ UNCHANGED uiVars
    /\ UNCHANGED modelVars

NextHook ==
    \/ \E c \in Calls : DetectTB(c)
    \/ \E c \in Calls, ok \in BOOLEAN : FetchReturn(c, ok)
    \/ \E c \in Calls, ok \in BOOLEAN : CreateReturn(c, ok)
    \/ \E c \in Calls, ok \in BOOLEAN : PreprocessReturn(c, ok)
    \/ \E c \in Calls, ok \in BOOLEAN, out \in ModelOutputs : RunReturn(c, ok, out)
    \/ \E c \in Calls : Settle(c)

SpecHook == Init /\ [][NextHook]_vars


(***************************************************************************)
(* useTBModel (loadModel, preprocessImage, predict) and FileUpload.onDrop. *)
(* Model outputs of predict are kept in thousandths: 700 stands for 0.7.   *)
(***************************************************************************)
\* Side of the square model input: canvas.width = 224; canvas.height = 224
InputSide == 224

\* maxSize: 10 * 1024 * 1024 of the dropzone
MaxSize == 10 * 1024 * 1024

\* output.data of model.run: one sigmoid value, two class scores (probabilities
\* or logits), or a vector of another length.
Predictions ==
    { <<900>>, <<200>>, <<500>>, <<905>>,
      <<300, 700>>, <<700, 300>>, <<500, 500>>, <<2000, 500>>, <<2000, 2000>>,
      <<>>, <<100, 200, 900>> }

\* predictions[predictions.length - 1] of an empty array
Undefined == [num |-> 0, den |-> 0]

\* let tbProbability = ...: the branches on predictions.length, as the fraction
\* num / den.
TbProbability(predictions) ==
    IF Len(predictions) = 2
    THEN LET sum == predictions[1] + predictions[2]
         IN  IF Abs(sum - 1000) < 10
             THEN [num |-> predictions[2], den |-> 1000]
             ELSE LET exp0 == Exp1000(predictions[1] \div 10)
                      exp1 == Exp1000(predictions[2] \div 10)
                      sumExp == exp0 + exp1
                  IN  [num |-> exp1, den |-> sumExp]
    ELSE IF Len(predictions) = 1
    THEN [num |-> predictions[1], den |-> 1000]
    ELSE IF Len(predictions) = 0
    THEN Undefined
    ELSE [num |-> predictions[Len(predictions)], den |-> 1000]

\* MakePrediction with Math.floor in place of Math.round.
MakePredictionTruncated(tbProbability) ==
    IF tbProbability = Undefined
    THEN [prediction |-> NormalLabel, confidence |-> NaN]
    ELSE LET tuberculosis == 2 * tbProbability.num > tbProbability.den
             shown == IF tuberculosis THEN tbProbability.num
                      ELSE tbProbability.den - tbProbability.num
         IN  [prediction |-> IF tuberculosis THEN TuberculosisLabel ELSE NormalLabel,
              confidence |-> (100 * shown) \div tbProbability.den]

\* MakePrediction with tbProbability >= 0.5 as the threshold.
MakePredictionInclusive(tbProbability) ==
    IF tbProbability = Undefined
    THEN [prediction |-> NormalLabel, confidence |-> NaN]
    ELSE LET tuberculosis == 2 * tbProbability.num >= tbProbability.den
         IN  [prediction |-> IF tuberculosis THEN TuberculosisLabel ELSE NormalLabel,
              confidence |->
                  RoundPercent(IF tuberculosis
                               THEN tbProbability.num
                               ELSE tbProbability.den - tbProbability.num,
                               tbProbability.den)]

\* prediction = tbProbability > 0.5 ? 'tuberculosis' : 'normal';
\* confidence = Math.round((tuberculosis ? tbProbability : 1 - tbProbability) * 100)
MakePrediction(tbProbability) ==
    IF tbProbability = Undefined
    THEN [prediction |-> NormalLabel, confidence |-> NaN]
    ELSE LET tuberculosis == 2 * tbProbability.num > tbProbability.den
         IN  [prediction |-> IF tuberculosis THEN TuberculosisLabel ELSE NormalLabel,
              confidence |->
                  RoundPercent(IF tuberculosis
                               THEN tbProbability.num
                               ELSE tbProbability.den - tbProbability.num,
                               tbProbability.den)]

\* preprocessImageForModel of the edge function: new Float32Array(224 * 224 * 3),
\* of which the first Math.min(imageSize, uint8Array.length) entries are written.
PreprocessImageForModel(byteLength) ==
    LET imageSize == InputSide * InputSide * 3
    IN  [length |-> imageSize, written |-> Min(imageSize, byteLength)]

\* Channels of the decoded image after removeAlpha(): a greyscale scan keeps one.
Channels(content) == IF content = "imgA" THEN 1 ELSE 3

\* preprocessImageForModel of the express server: sharp resizes to 224 x 224 (fit:
\* 'fill'), the raw buffer is copied to a Float32Array(224 * 224 * 3) and transposed
\* into another one of the same length.
SharpPreprocess(content) ==
    LET resizedImage == InputSide * InputSide * Channels(content)
        float32Data  == InputSide * InputSide * 3
        chw          == InputSide * InputSide * 3
    IN  [length |-> chw, written |-> Min(resizedImage, float32Data)]

\* A preprocessImage that sizes the canvas by the image instead of by the model.
PreprocessImageNatural(content) ==
    [length |-> 3 * Width(content) * Height(content),
     dims   |-> <<1, 3, Height(content), Width(content)>>]

\* preprocessImage: the image is drawn on a 224 x 224 canvas whatever its size,
\* and the planes are copied to new Float32Array(3 * 224 * 224).
PreprocessImage(content) ==
    LET canvasWidth  == InputSide
        canvasHeight == InputSide
    IN  [length |-> 3 * canvasWidth * canvasHeight,
         dims   |-> <<1, 3, canvasHeight, canvasWidth>>]

\* A catch of loadModel that records the error and leaves isLoading as it was.
LoadFailedStillLoading(message) ==
    /\ modelError' = message
    /\ load' = [load EXCEPT !.pc = "failed"]
    /\ UNCHANGED <<model, isModelLoading>>

\* catch (err) of loadModel: setError(errorMessage); setIsLoading(false); no rethrow
LoadFailed(message) ==
    /\ modelError' = message
    /\ isModelLoading' = FALSE
    /\ load' = [load EXCEPT !.pc = "failed"]
    /\ UNCHANGED model

\* useEffect(() => { loadModel(); }, []): until the download is awaited
Mount ==
    /\ load.pc = "mount"
    /\ load' = [load EXCEPT !.pc = "download"]
    /\ UNCHANGED <<model, isModelLoading, modelError, parsed,
                   isProcessing, dropError, drop, uploads>>
    /\ UNCHANGED serverVars
    /\ UNCHANGED uiVars
    /\ UNCHANGED hookVars

\* await supabase.storage.from('tb-models').download(...); the size check
DownloadReturn(blob, ok) ==
    /\ load.pc = "download"
    /\ IF ~ok
       THEN LoadFailed("Failed to download model")
       ELSE IF BlobSize(blob) = 0
       THEN LoadFailed("Model file is empty or not found")
       ELSE /\ load' = [pc |-> "create", blob |-> blob]
            /\ UNCHANGED <<model, isModelLoading, modelError>>
    /\ UNCHANGED <<parsed, isProcessing, dropError, drop, uploads>>
    /\ UNCHANGED serverVars
    /\ UNCHANGED uiVars
    /\ UNCHANGED hookVars

\* await ort.InferenceSession.create(arrayBuffer, ...): the runtime parses the blob
\* and throws unless it is an ONNX model; then setModel, setIsLoading, setError
CreateSession(ok) ==
    /\ load.pc = "create"
    /\ parsed' = parsed \cup {load.blob}
    /\ IF ok /\ load.blob = "onnx"
       THEN /\ model' = "session"
            /\ isModelLoading' = FALSE
            /\ modelError' = "null"
            /\ load' = [load EXCEPT !.pc = "done"]
       ELSE LoadFailed("Failed to parse model")
    /\ UNCHANGED <<isProcessing, dropError, drop, uploads>>
    /\ UNCHANGED serverVars
    /\ UNCHANGED uiVars
    /\ UNCHANGED hookVars

\* catch (err) / finally of onDrop: setError(message); setIsProcessing(false)
DropFailed(message) ==
    /\ dropError' = message
    /\ isProcessing' = FALSE
    /\ drop' = [drop EXCEPT !.pc = "failed", !.inFlight = @ - 1]
    /\ UNCHANGED uploads

\* An onDrop that calls predict without setIsProcessing(true).
PredictEntryUnflagged(content) ==
    /\ IF model = "null"
       THEN /\ dropError' = "Model not loaded. Please wait for initialization."
            /\ isProcessing' = FALSE
            /\ drop' = [NoDrop EXCEPT !.pc = "failed", !.content = content,
                                      !.inFlight = drop.inFlight]
       ELSE /\ dropError' = ""
            /\ UNCHANGED isProcessing
            /\ drop' = [NoDrop EXCEPT !.pc = "preprocess", !.content = content,
                                      !.inFlight = drop.inFlight + 1]
    /\ uploads' = {}

\* onDrop up to the first await of predict: setError(""), setIsProcessing(true),
\* then predict's entry, which throws when no model is set; onDrop's catch and
\* finally then run at once.
PredictEntry(content) ==
    /\ IF model = "null"
       THEN /\ dropError' = "Model not loaded. Please wait for initialization."
            /\ isProcessing' = FALSE
            /\ drop' = [NoDrop EXCEPT !.pc = "failed", !.content = content,
                                      !.inFlight = drop.inFlight]
       ELSE /\ dropError' = ""
            /\ isProcessing' = TRUE
            /\ drop' = [NoDrop EXCEPT !.pc = "preprocess", !.content = content,
                                      !.inFlight = drop.inFlight + 1]
    /\ uploads' = {}

\* The dropzone hands a file to onDrop, unless it is disabled (isProcessing ||
\* isModelLoading) or not rendered (modelError); a file over maxSize goes to
\* onDropRejected instead.
OnDrop(content) ==
    /\ ~(isProcessing \/ isModelLoading)
    /\ modelError = "null"
    /\ IF ByteLength(content) > MaxSize
       THEN /\ dropError' = "Please upload a valid image file (JPG, PNG, or DICOM)"
            /\ drop' = [NoDrop EXCEPT !.pc = "failed", !.content = content,
                                      !.inFlight = drop.inFlight]
            /\ uploads' = {}
            /\ UNCHANGED isProcessing
       ELSE PredictEntry(content)
    /\ UNCHANGED <<model, isModelLoading, modelError, load, parsed>>
    /\ UNCHANGED serverVars
    /\ UNCHANGED uiVars
    /\ UNCHANGED hookVars

\* predict called by a consumer of the hook that does not look at isModelLoading
\* or modelError first (one call at a time).
Predict(content) ==
    /\ drop.pc \in {"idle", "done", "failed"}
    /\ PredictEntry(content)
    /\ UNCHANGED <<model, isModelLoading, modelError, load, parsed>>
    /\ UNCHANGED serverVars
    /\ UNCHANGED uiVars
    /\ UNCHANGED hookVars

\* img.onload (the tensor) or img.onerror (reject 'Failed to load image')
ImageLoaded ==
    /\ drop.pc = "preprocess"
    /\ IF Decodable(drop.content)
       THEN /\ drop' = [drop EXCEPT !.pc = "run",
                                    !.tensor = PreprocessImage(drop.content)]
            /\ UNCHANGED <<isProcessing, dropError, uploads>>
       ELSE DropFailed("Failed to load image")
    /\ UNCHANGED <<model, isModelLoading, modelError, load, parsed>>
    /\ UNCHANGED serverVars
    /\ UNCHANGED uiVars
    /\ UNCHANGED hookVars

\* await model.run(feeds), the interpretation of the output, the return to onDrop
\* and its onUpload(file, prediction, confidence)
Inference(ok, predictions) ==
    /\ drop.pc = "run"
    /\ IF ok
       THEN LET result == MakePrediction(TbProbability(predictions))
            IN  /\ drop' = [drop EXCEPT !.pc = "done",
                                        !.predictions = predictions,
                                        !.result = result,
                                        !.inFlight = @ - 1]
                /\ uploads' = uploads \cup
                      {[content |-> drop.content, prediction |-> result.prediction,
                        confidence |-> result.confidence]}
                /\ isProcessing' = FALSE
                /\ UNCHANGED dropError
       ELSE DropFailed("Prediction failed")
    /\ UNCHANGED <<model, isModelLoading, modelError, load, parsed>>
    /\ UNCHANGED serverVars
    /\ UNCHANGED uiVars
    /\ UNCHANGED hookVars

NextModel ==
    \/ Mount
    \/ \E blob \in Blobs, ok \in BOOLEAN : DownloadReturn(blob, ok)
    \/ \E ok \in BOOLEAN : CreateSession(ok)
    \/ \E content \in Contents : OnDrop(content)
    \/ ImageLoaded
    \/ \E ok \in BOOLEAN, predictions \in Predictions : Inference(ok, predictions)

SpecModel == Init /\ [][NextModel]_vars

\* The hook alone: the load on mount and predict called at any time.
NextPredict ==
    \/ Mount
    \/ \E blob \in Blobs, ok \in BOOLEAN : DownloadReturn(blob, ok)
    \/ \E ok \in BOOLEAN : CreateSession(ok)
    \/ \E content \in Contents : Predict(content)
    \/ ImageLoaded
    \/ \E ok \in BOOLEAN, predictions \in Predictions : Inference(ok, predictions)

SpecPredict == Init /\ [][NextPredict]_vars


(***************************************************************************)
(* Preprocessing: from the pixels of an image to the planes of the tensor.  *)
(* The index arithmetic of the three implementations, on an image of        *)
(* CodecSide x CodecSide pixels instead of 224 x 224.                        *)
(***************************************************************************)
CodecSide == 2

\* Test images 0 .. MaxImage; the samples of one image are pairwise different.
MaxImage == 40

Implementations == {"sharp", "canvas", "bytes"}

\* Channel c (0 = R, 1 = G, 2 = B) of the pixel in row h, column w of the image
\* after it was resized to the model's input size.
Sample(image, h, w, c) == (image + 16 * (h * CodecSide + w) + 5 * c) % 256

\* sharp(...).removeAlpha().raw().toBuffer(): rows of pixels, three bytes a pixel.
\* An uncompressed RGB file has the same bytes.
RawRGB(image, n) ==
    [i \in 0..(n * n * 3 - 1) |-> Sample(image, (i \div 3) \div n, (i \div 3) % n, i % 3)]

\* ctx.getImageData(0, 0, 224, 224).data: rows of pixels, four bytes a pixel (RGBA).
CanvasRGBA(image, n) ==
    [i \in 0..(n * n * 4 - 1) |->
        IF i % 4 = 3 THEN 255
        ELSE Sample(image, (i \div 4) \div n, (i \div 4) % n, i % 4)]

\* x / 255.0, in thousandths.
Unit(x) == (1000 * x) \div 255

\* Express server: float32Data[i] = resizedImage[i] / 255.0, then
\* chw[c * 224 * 224 + h * 224 + w] = float32Data[h * 224 * 3 + w * 3 + c].
SharpTranspose(resizedImage, n) ==
    LET float32Data == [i \in 0..(n * n * 3 - 1) |->
                           IF i \in DOMAIN resizedImage THEN Unit(resizedImage[i]) ELSE 0]
    IN  [k \in 0..(n * n * 3 - 1) |->
            LET c == k \div (n * n)
                h == (k % (n * n)) \div n
                w == k % n
            IN  float32Data[h * n * 3 + w * 3 + c]]

\* useTBModel: float32Data[i] = data[i * 4] / 255.0,
\* float32Data[224 * 224 + i] = data[i * 4 + 1] / 255.0,
\* float32Data[224 * 224 * 2 + i] = data[i * 4 + 2] / 255.0.
CanvasPlanar(data, n) ==
    [k \in 0..(3 * n * n - 1) |->
        LET c == k \div (n * n)
            i == k % (n * n)
        IN  Unit(data[i * 4 + c])]

\* tb-detection edge function: processedData[i] = uint8Array[i] / 255.0 for
\* i < Math.min(imageSize, uint8Array.length); the rest stays 0.
LinearCopy(uint8Array, n) ==
    [i \in 0..(n * n * 3 - 1) |->
        IF i \in DOMAIN uint8Array THEN Unit(uint8Array[i]) ELSE 0]

\* The tensor data each implementation builds for an image.
Preprocess(impl, image) ==
    CASE impl = "sharp"  -> SharpTranspose(RawRGB(image, CodecSide), CodecSide)
      [] impl = "canvas" -> CanvasPlanar(CanvasRGBA(image, CodecSide), CodecSide)
      [] impl = "bytes"  -> LinearCopy(RawRGB(image, CodecSide), CodecSide)

\* One preprocessing run.
Normalize(impl, image) ==
    /\ codec.pc = "idle"
    /\ codec' = [pc |-> "done", impl |-> impl, image |-> image,
                 tensor |-> Preprocess(impl, image)]
    /\ UNCHANGED <<page, chat>>
    /\ UNCHANGED serverVars
    /\ UNCHANGED hookVars
    /\ UNCHANGED modelVars

NextCodec == \E impl \in Implementations, image \in 0..MaxImage : Normalize(impl, image)

SpecCodec == Init /\ [][NextCodec]_vars


(***************************************************************************)
(* The Index page: handleImageUpload and resetAnalysis, in the page that    *)
(* invokes the tb-detection function and in the page that calls predict.    *)
(***************************************************************************)
PageKinds == {"server", "client"}

\* What supabase.functions.invoke resolves to: an error, data, or neither.
Responses == {"error", "data", "empty"}

\* response.data of a 200 response.
ResponseData ==
    { [prediction |-> NormalLabel, confidence |-> 88],
      [prediction |-> TuberculosisLabel, confidence |-> 93] }

\* prediction: Math.random() > 0.7 ? 'tuberculosis' : 'normal',
\* confidence: Math.floor(Math.random() * 30) + 70
MockResult(d1, d2) ==
    [prediction |-> IF d1 > 70 THEN TuberculosisLabel ELSE NormalLabel,
     confidence |-> (d2 * 30) \div 100 + 70]

\* handleImageUpload up to its await: the session check (and, in the page that
\* predicts in the browser, the modelError and isModelLoading checks), then
\* setIsAnalyzing(true).  One handler runs at a time.
HandleImageUpload(hasSession) ==
    /\ page.pc # "await"
    /\ page' =
          IF ~hasSession
          THEN [page EXCEPT !.pc = "refused", !.outcome = "none"]
          ELSE IF page.kind = "client" /\ (modelError # "null" \/ isModelLoading)
          THEN [page EXCEPT !.pc = "refused", !.outcome = "none"]
          ELSE [page EXCEPT !.pc = "await", !.outcome = "none", !.isAnalyzing = TRUE]
    /\ UNCHANGED <<codec, chat>>
    /\ UNCHANGED serverVars
    /\ UNCHANGED hookVars
    /\ UNCHANGED modelVars

\* The invoke settles in a handler whose setIsAnalyzing(false) follows the try
\* block instead of standing in a finally.
InvokeReturnNoFinally(response, data, d1, d2) ==
    /\ page.kind = "server"
    /\ page.pc = "await"
    /\ page' =
          CASE response = "error" ->
                 [page EXCEPT !.pc = "finished", !.outcome = "error",
                              !.result = MockResult(d1, d2)]
            [] response = "data" ->
                 [page EXCEPT !.pc = "finished", !.outcome = "data",
                              !.result = data, !.isAnalyzing = FALSE]
            [] OTHER ->
                 [page EXCEPT !.pc = "finished", !.outcome = "empty",
                              !.isAnalyzing = FALSE]
    /\ UNCHANGED <<codec, chat>>
    /\ UNCHANGED serverVars
    /\ UNCHANGED hookVars
    /\ UNCHANGED modelVars

\* await supabase.functions.invoke('tb-detection', ...) settles: response.error is
\* thrown into the catch, which sets a mock result; response.data becomes the
\* result; finally setIsAnalyzing(false).
InvokeReturn(response, data, d1, d2) ==
    /\ page.kind = "server"
    /\ page.pc = "await"
    /\ page' =
          CASE response = "error" ->
                 [page EXCEPT !.pc = "finished", !.outcome = "error",
                              !.result = MockResult(d1, d2), !.isAnalyzing = FALSE]
            [] response = "data" ->
                 [page EXCEPT !.pc = "finished", !.outcome = "data",
                              !.result = data, !.isAnalyzing = FALSE]
            [] OTHER ->
                 [page EXCEPT !.pc = "finished", !.outcome = "empty",
                              !.isAnalyzing = FALSE]
    /\ UNCHANGED <<codec, chat>>
    /\ UNCHANGED serverVars
    /\ UNCHANGED hookVars
    /\ UNCHANGED modelVars

\* await predict(file) settles: its result becomes the page's result, or the catch
\* shows a toast and leaves the result alone; finally setIsAnalyzing(false).
PredictReturn(ok, predictions) ==
    /\ page.kind = "client"
    /\ page.pc = "await"
    /\ page' =
          IF ok
          THEN [page EXCEPT !.pc = "finished", !.outcome = "data",
                            !.result = MakePrediction(TbProbability(predictions)),
                            !.isAnalyzing = FALSE]
          ELSE [page EXCEPT !.pc = "finished", !.outcome = "error",
                            !.isAnalyzing = FALSE]
    /\ UNCHANGED <<codec, chat>>
    /\ UNCHANGED serverVars
    /\ UNCHANGED hookVars
    /\ UNCHANGED modelVars

\* resetAnalysis, the onReset of ResultsDisplay, which is rendered while
\* isAnalyzing or a result is set.
ResetAnalysis ==
    /\ page.isAnalyzing \/ page.result # NoResult
    /\ page' = [page EXCEPT !.result = NoResult, !.isAnalyzing = FALSE]
    /\ UNCHANGED <<codec, chat>>
    /\ UNCHANGED serverVars
    /\ UNCHANGED hookVars
    /\ UNCHANGED modelVars

InitPage ==
    /\ variant = "onnxFilename"
    /\ clock = 0
    /\ storage = {}
    /\ tb_detections = {}
    /\ req = [r \in Requests |-> Idle]
    /\ session = NoSession
    /\ isLoading = FALSE
    /\ error = "null"
    /\ wasmPaths = "default"
    /\ sessionsCreated = 0
    /\ call = [c \in Calls |-> NoCall]
    /\ model = "null"
    /\ isModelLoading = TRUE
    /\ modelError = "null"
    /\ load = NoLoad
    /\ parsed = {}
    /\ isProcessing = FALSE
    /\ dropError = ""
    /\ drop = NoDrop
    /\ uploads = {}
    /\ codec = NoCodec
    /\ page \in {[NoPage EXCEPT !.kind = k] : k \in PageKinds}
    /\ chat = NoChat

NextPage ==
    \/ Mount
    \/ \E blob \in Blobs, ok \in BOOLEAN : DownloadReturn(blob, ok)
    \/ \E ok \in BOOLEAN : CreateSession(ok)
    \/ \E hasSession \in BOOLEAN : HandleImageUpload(hasSession)
    \/ \E response \in Responses, data \in ResponseData,
          d1 \in RandomDraws, d2 \in RandomDraws :
            InvokeReturn(response, data, d1, d2)
    \/ \E ok \in BOOLEAN, predictions \in Predictions : PredictReturn(ok, predictions)
    \/ ResetAnalysis

SpecPage == InitPage /\ [][NextPage]_vars


(***************************************************************************)
(* TBChatbot (the one that invokes the tb-chat function).                  *)
(***************************************************************************)
\* The conversation holds at most this many messages.
MaxMessages == 5

\* What the user can have typed: nothing, a blank, "hi", " hi".
InputValues == { <<>>, <<" ">>, <<"h", "i">>, <<" ", "h", "i">> }

RECURSIVE TrimStart(_)
TrimStart(text) ==
    IF text # <<>> /\ Head(text) = " " THEN TrimStart(Tail(text)) ELSE text

RECURSIVE TrimEnd(_)
TrimEnd(text) ==
    IF text # <<>> /\ text[Len(text)] = " "
    THEN TrimEnd(SubSeq(text, 1, Len(text) - 1))
    ELSE text

\* String.prototype.trim
Trim(text) == TrimEnd(TrimStart(text))

\* data.response, and the text of the catch block's message.
BotResponse == <<"o", "k">>
Apology == <<"s", "o", "r", "r", "y">>

\* onChange of the input, which is disabled while isLoading.
SetInputValue(text) ==
    /\ ~chat.isLoading
    /\ chat' = [chat EXCEPT !.inputValue = text]
    /\ UNCHANGED <<codec, page>>
    /\ UNCHANGED serverVars
    /\ UNCHANGED hookVars
    /\ UNCHANGED modelVars

\* A handleSendMessage that tests the input for emptiness without trimming it.
HandleSendMessageUntrimmed ==
    /\ Len(chat.messages) + chat.pending < MaxMessages
    /\ chat' =
          IF chat.inputValue = <<>> \/ chat.isLoading
          THEN [chat EXCEPT !.last = "ignored"]
          ELSE [chat EXCEPT
                  !.messages = Append(@, [isBot |-> FALSE, text |-> chat.inputValue]),
                  !.inputValue = <<>>,
                  !.isLoading = TRUE,
                  !.pending = @ + 1,
                  !.last = "accepted"]
    /\ UNCHANGED <<codec, page>>
    /\ UNCHANGED serverVars
    /\ UNCHANGED hookVars
    /\ UNCHANGED modelVars

\* handleSendMessage up to its await: if (!inputValue.trim() || isLoading) return;
\* then the user message is appended, the input cleared and isLoading set.
HandleSendMessage ==
    /\ Len(chat.messages) + chat.pending < MaxMessages
    /\ chat' =
          IF Trim(chat.inputValue) = <<>> \/ chat.isLoading
          THEN [chat EXCEPT !.last = "ignored"]
          ELSE [chat EXCEPT
                  !.messages = Append(@, [isBot |-> FALSE, text |-> chat.inputValue]),
                  !.inputValue = <<>>,
                  !.isLoading = TRUE,
                  !.pending = @ + 1,
                  !.last = "accepted"]
    /\ UNCHANGED <<codec, page>>
    /\ UNCHANGED serverVars
    /\ UNCHANGED hookVars
    /\ UNCHANGED modelVars

\* await supabase.functions.invoke('tb-chat', ...) settles: the bot's response, or
\* the catch block's apology; finally setIsLoading(false).
ChatReturn(ok) ==
    /\ chat.pending > 0
    /\ chat' = [chat EXCEPT
                  !.messages = Append(@, [isBot |-> TRUE,
                                          text  |-> IF ok THEN BotResponse ELSE Apology]),
                  !.isLoading = FALSE,
                  !.pending = @ - 1]
    /\ UNCHANGED <<codec, page>>
    /\ UNCHANGED serverVars
    /\ UNCHANGED hookVars
    /\ UNCHANGED modelVars

NextChat ==
    \/ \E text \in InputValues : SetInputValue(text)
    \/ HandleSendMessage
    \/ \E ok \in BOOLEAN : ChatReturn(ok)

SpecChat == Init /\ [][NextChat]_vars

\* The invoke's promise settles, and its continuation is then run.
FairnessChat == WF_vars(\E ok \in BOOLEAN : ChatReturn(ok))

FairSpecChat == Init /\ [][NextChat]_vars /\ FairnessChat


(***************************************************************************)
(* Properties.                                                             *)
(***************************************************************************)
Labels == {NormalLabel, TuberculosisLabel}

\* The selector has finished for request r: a backend answered, or the catch ran.
Decided(r) == req[r].sel \in {"Succeeded", "AllFailed"}

AllBackendsFail(h) == \A b \in BackendKinds : h[b] \in {"unavailable", "fault"}

\* C1: with a chain [A, B, C] where A fails unavailable, B fails with a fault and C
\* succeeds, the backends invoked are A, B, C in that order and the request's result
\* is C's; nothing (fallback or other) is returned before C was tried.
C1_FallbackOrdering ==
    \A r \in Requests : \A b \in BackendKinds, c \in BackendKinds :
        LET a == Backend(variant)
        IN  ( /\ a \in BackendKinds
              /\ Cardinality({a, b, c}) = 3
              /\ Decided(r)
              /\ req[r].health[a] = "unavailable"
              /\ req[r].health[b] = "fault"
              /\ req[r].health[c] = "ok" )
            => ( /\ req[r].invoked = <<a, b, c>>
                 /\ req[r].sel = "Succeeded" )

\* C2: when every backend fails, the result is exactly normal / 70, flagged degraded,
\* and no error response is sent for the backend failure.
C2_AllFailConservative ==
    \A r \in Requests :
        ( /\ Backend(variant) \in BackendKinds
          /\ req[r].sel = "AllFailed"
          /\ AllBackendsFail(req[r].health) )
        => ( /\ req[r].err # "model"
             /\ (req[r].pc = "insert" \/ req[r].response.status = 200)
                   => ( /\ req[r].prediction = NormalLabel
                        /\ req[r].confidence = 70 )
             /\ req[r].response.status = 200 => "degraded" \in req[r].response.keys )

\* C4: a backend failure is never surfaced to the caller as an error.
C4_BackendErrorsRecovered ==
    \A r \in Requests : req[r].err # "model"

\* C7: a request is not affected by another request: when the bucket accepts writes,
\* its upload is accepted, as it is when the request runs alone.
C7_RequestsIndependent ==
    \A r \in Requests : req[r].err = "upload" => ~req[r].storageOk

\* C8: two requests with the same image bytes and the same backend outcomes (success
\* value or failure) get the same label and confidence.
C8_Idempotent ==
    \A r1 \in Requests, r2 \in Requests :
        ( /\ Backend(variant) \in BackendKinds
          /\ req[r1].response.status = 200
          /\ req[r2].response.status = 200
          /\ req[r1].file.content = req[r2].file.content
          /\ req[r1].health = req[r2].health
          /\ req[r1].backendResult = req[r2].backendResult )
        => ( /\ req[r1].response.prediction = req[r2].response.prediction
             /\ req[r1].response.confidence = req[r2].response.confidence )

C10_DegradedFlag ==
    \A r \in Requests :
        req[r].response.status = 200
        => ( ("degraded" \in req[r].response.keys) <=> (req[r].source # "model") )

\* C5: the model is loaded at most once, and every call uses that one handle.
C5_ModelLoadedOnce ==
    /\ sessionsCreated <= 1
    /\ \A c \in Calls :
          call[c].activeSession # NoSession => call[c].activeSession = session


\* No estimator appears twice in a request's log.
NoRepeat(seq) == \A i \in 1..Len(seq), j \in 1..Len(seq) : seq[i] = seq[j] => i = j

\* s is t, or t with entries appended.
IsPrefix(s, t) == Len(s) <= Len(t) /\ SubSeq(t, 1, Len(s)) = s

C3_StateInv ==
    \A r \in Requests :
        /\ NoRepeat(req[r].invoked)
        /\ req[r].sel = "NotStarted" => req[r].invoked = <<>>
        /\ req[r].sel = "Trying" => req[r].invoked = <<Backend(variant)>>
        /\ req[r].sel = "Succeeded"
              => /\ req[r].invoked = <<Backend(variant)>>
                 /\ req[r].pc = "insert"
                       => /\ req[r].prediction = req[r].backendResult.prediction
                          /\ req[r].confidence = req[r].backendResult.confidence
                 /\ req[r].response.status = 200
                       => /\ req[r].response.prediction = req[r].backendResult.prediction
                          /\ req[r].response.confidence = req[r].backendResult.confidence

C3_Step ==
    \A r \in Requests :
        /\ IsPrefix(req[r].invoked, req'[r].invoked)
        /\ req[r].sel = "NotStarted" => req'[r].sel \in {"NotStarted", "Trying"}
        /\ req[r].sel = "Trying" => req'[r].sel \in {"Trying", "Succeeded", "AllFailed"}
        /\ Decided(r) => /\ req'[r].sel = req[r].sel
                         /\ req'[r].invoked = req[r].invoked

Fairness ==
    \A r \in Requests :
        /\ WF_vars(\E ok \in BOOLEAN : Upload(r, ok))
        /\ WF_vars(\E health \in Environments, up \in {"responsive", "stalled"} :
                      CallBackend(r, health, up))
        /\ WF_vars(\E out \in AllOutputs, answer \in AllAnswers,
                      d1 \in RandomDraws, d2 \in RandomDraws :
                      BackendReturn(r, out, answer, d1, d2))
        /\ WF_vars(\E ok \in BOOLEAN : Insert(r, ok))

FairSpec == Init /\ [][Next]_vars /\ Fairness

\* C6: every request that reached the backend call is answered in the end: a stalled
\* upstream is abandoned after a timeout.
C6_RequestsTerminate ==
    \A r \in Requests : (req[r].pc = "await") ~> (req[r].pc = "done")


(***************************************************************************)
(* Output interpretation and preprocessing of the browser-side model.      *)
(***************************************************************************)
\* C11: predict derives no label and no confidence from an output vector whose
\* length is not 1 or 2: whenever it returned a result, the vector had 1 or 2 scores.
C11_MalformedOutputRejected ==
    drop.pc = "done" => Len(drop.predictions) \in {1, 2}

\* C13: a model blob whose first byte is '<' (0x3C) is rejected before any parse:
\* no such blob is ever handed to InferenceSession.create.
C13_HtmlNeverParsed ==
    \A blob \in parsed : FirstByte(blob) # 60

\* The result the specification gives for a pair of class scores (hundredths): the
\* pair itself when it sums to 1 within 0.01, its softmax otherwise.
PairResult(out) ==
    LET direct == Abs(out[1] + out[2] - 100) < 1
        num == IF direct THEN out[2] ELSE Exp1000(out[2])
        den == IF direct THEN 100 ELSE Exp1000(out[1]) + Exp1000(out[2])
    IN  IF 2 * num > den
        THEN [prediction |-> TuberculosisLabel, confidence |-> RoundPercent(num, den)]
        ELSE [prediction |-> NormalLabel, confidence |-> RoundPercent(den - num, den)]

\* C16: for two class scores the result is taken from the scores themselves when
\* they sum to 1 (within 0.01) and from their softmax otherwise ([0.3, 0.7] gives
\* tuberculosis/70): every result detectTB returns is the one this rule gives for
\* one of the model's outputs.
C16_PairInterpretation ==
    \A c \in Calls :
        call[c].pc = "done" =>
            call[c].result \in { PairResult(out) : out \in ModelOutputs }

\* Math.round(x / 10) for x >= 0.
RoundTenth(x) == (x + 5) \div 10

\* C17: a single output p in [0, 1] is the tuberculosis probability itself:
\* tuberculosis with confidence round(100 p) when p > 0.5, normal with confidence
\* round(100 (1 - p)) otherwise.
C17_SingleSigmoid ==
    ( /\ drop.pc = "done"
      /\ Len(drop.predictions) = 1
      /\ drop.predictions[1] \in 0..1000 )
    => LET p == drop.predictions[1]
       IN  drop.result =
              IF p > 500
              THEN [prediction |-> TuberculosisLabel, confidence |-> RoundTenth(p)]
              ELSE [prediction |-> NormalLabel, confidence |-> RoundTenth(1000 - p)]

\* C17 witness: predict returned tuberculosis/91 for the single output 0.905, and
\* 0.2 is among the outputs that give normal/80.
C17_Witness ==
    /\ drop.pc = "done"
    /\ drop.predictions = <<905>>
    /\ drop.result = [prediction |-> TuberculosisLabel, confidence |-> 91]
    /\ MakePrediction(TbProbability(<<200>>)) =
          [prediction |-> NormalLabel, confidence |-> 80]

\* C18: the tensor built from any decodable image has 3 * 224 * 224 elements and
\* shape [1, 3, 224, 224], whatever the image's width, height and byte length, in
\* the browser's preprocessImage and in both preprocessImageForModel functions.
C18_TensorShape ==
    /\ drop.pc \in {"run", "done"} =>
          /\ drop.tensor.length = 150528
          /\ drop.tensor.dims = <<1, 3, 224, 224>>
    /\ \A content \in Contents :
          Decodable(content) =>
             /\ PreprocessImageForModel(ByteLength(content)).length = 150528
             /\ SharpPreprocess(content).length = 150528

\* C18 witness: a 100 x 80 image went through preprocessImage and inference.
C18_Witness ==
    /\ drop.pc = "done"
    /\ Width(drop.content) = 100
    /\ Height(drop.content) = 80
    /\ drop.tensor.length = 150528

\* C19: an output vector that breaks the contract (length not 1 or 2) is a backend
\* fault: nothing derived from it reaches the caller, so onUpload is only ever
\* called for a vector of 1 or 2 scores.
C19_MalformedOutputIsFault ==
    \A u \in uploads :
        /\ Len(drop.predictions) \in {1, 2}
        /\ u.confidence # NaN

\* Scores of predict (thousandths) as the scores the handlers read (hundredths).
Hundredths(predictions) == [i \in 1..Len(predictions) |-> predictions[i] \div 10]

C12_InputValidated ==
    /\ \A r \in Requests :
          ( /\ req[r].file # NoFile
            /\ \/ ByteLength(req[r].file.content) = 0
               \/ ByteLength(req[r].file.content) > MaxSize )
          => /\ req[r].pc \notin {"upload", "try", "await", "insert"}
             /\ req[r].response.status # 200
    /\ \A o \in storage : ByteLength(o.content) \in 1..MaxSize

\* C14: an image that cannot be decoded fails the request: in the handlers that
\* build a tensor from the image (the ONNX one and the PNG-decoding heuristic one)
\* no backend is invoked for it and no result, real or fallback, is stored or
\* returned.
C14_UndecodableRejected ==
    \A r \in Requests :
        ( /\ variant \in {"onnxFilename", "heuristic"}
          /\ req[r].file # NoFile
          /\ ~Decodable(req[r].file.content) )
        => /\ req[r].invoked = <<>>
           /\ req[r].pc # "insert"
           /\ req[r].response.status # 200

\* C15: the heuristic backend never fails, so a handler whose backend is the
\* heuristic never ends in its fallback (AllFailed).
C15_HeuristicNeverFails ==
    \A r \in Requests :
        variant \in HeuristicVariants => req[r].sel # "AllFailed"


(***************************************************************************)
(* Confidence, runtime configuration.                                      *)
(***************************************************************************)
\* C21: the confidence of a result the model produced is the probability mass of
\* the label it carries, a percentage between 50 and 100.
C21_ConfidenceIsWinnerMass ==
    \A r \in Requests :
        ( /\ Backend(variant) = "onnx"
          /\ req[r].sel = "Succeeded" )
        => req[r].backendResult.confidence \in 50..100

\* C24: handling a call never changes the runtime's global configuration: the
\* WASM path the ONNX runtime was configured with stays what it was.
C24_ConfigurationReadOnly == wasmPaths = "default"


C28_StepsOrdered ==
    /\ \A r \in Requests :
          /\ req[r].response.status = 200
                => /\ \E row \in tb_detections :
                         /\ row.image_path = req[r].fileName
                         /\ row.prediction = req[r].response.prediction
                         /\ row.confidence = req[r].response.confidence
                   /\ \E o \in storage : o.name = req[r].fileName
          /\ req[r].pc \in {"try", "await", "insert"}
                => \E o \in storage : o.name = req[r].fileName
          /\ req[r].err \in {"upload", "db"} => req[r].response.status = 500
          /\ req[r].err = "upload" => req[r].invoked = <<>>
    /\ \A row \in tb_detections : \E o \in storage : o.name = row.image_path

\* C28 witness: the Express handler answered 200 after its upload, inference and
\* insert.
C28_Witness ==
    /\ variant = "express"
    /\ req["r1"].response.status = 200
    /\ req["r1"].invoked = <<"onnx">>
    /\ tb_detections # {}

C29_Step ==
    /\ \A auth \in {"none", "invalid"}, file \in InputFiles \cup {NoFile},
          body \in ClientBodies :
            (variant # "indicator" /\ Receive("r1", auth, file, body))
            => /\ req'["r1"].response.status = 401
               /\ req'["r1"].pc = "done"
               /\ req'["r1"].err = "auth"
    /\ req["r1"].err = "auth"
          => /\ UNCHANGED <<storage, tb_detections, req>>
             /\ req["r1"].invoked = <<>>
             /\ req["r1"].tensors = 0
             /\ storage = {}
             /\ tb_detections = {}

\* C29: in the handlers that check authorization, a request without an
\* authorization header or with a token that resolves to no user is answered 401,
\* and nothing follows it: no upload, no model download or inference, no insert.
C29_Unauthorized == [][C29_Step]_vars

\* C29 witness: a request was answered 401 and left the bucket and the table empty.
C29_Witness ==
    /\ variant = "onnxFilename"
    /\ req["r1"].err = "auth"
    /\ req["r1"].response.status = 401
    /\ storage = {}
    /\ tb_detections = {}


(***************************************************************************)
(* useTBModel and the dropzone of FileUpload.                              *)
(***************************************************************************)
\* C26: once the load attempt is over, isModelLoading is false and exactly one of
\* model and modelError is set; they are never both set; predict called while no
\* model is set fails with 'Model not loaded' and does no preprocessing and no
\* inference.
C26_LoadOutcome ==
    /\ load.pc \in {"done", "failed"}
          => /\ ~isModelLoading
             /\ (model # "null") # (modelError # "null")
    /\ ~(model # "null" /\ modelError # "null")
    /\ (model = "null" /\ drop.pc # "idle")
          => /\ drop.pc = "failed"
             /\ dropError = "Model not loaded. Please wait for initialization."
             /\ drop.tensor = NoTensor
             /\ drop.predictions = <<>>
             /\ drop.result = NoResult

\* C26 witness: the load failed, and a predict call made afterwards was refused.
C26_Witness ==
    /\ load.pc = "failed"
    /\ modelError = "Failed to download model"
    /\ model = "null"
    /\ ~isModelLoading
    /\ drop.pc = "failed"
    /\ dropError = "Model not loaded. Please wait for initialization."

\* C27: at most one predict is in flight; while one is, isProcessing is true, so
\* the dropzone is disabled; no drop is taken while the model loads; isProcessing
\* is false again after success and after failure; onUpload is called only after
\* predict succeeded, with the prediction and confidence it returned.
C27_OnePredictInFlight ==
    /\ drop.inFlight \in {0, 1}
    /\ drop.inFlight = 1 <=> drop.pc \in {"preprocess", "run"}
    /\ drop.inFlight = 1 => isProcessing
    /\ drop.pc \in {"idle", "done", "failed"} => ~isProcessing
    /\ isModelLoading => drop.pc = "idle"
    /\ uploads # {}
          => /\ drop.pc = "done"
             /\ uploads = {[content    |-> drop.content,
                            prediction |-> drop.result.prediction,
                            confidence |-> drop.result.confidence]}
    /\ (drop.pc = "done") => uploads # {}

\* C27 witness: predict succeeded for a dropped file, onUpload was called with its
\* result, and isProcessing is false again.
C27_Witness ==
    /\ drop.pc = "done"
    /\ drop.content = "imgB"
    /\ uploads = {[content |-> "imgB", prediction |-> TuberculosisLabel,
                   confidence |-> 90]}
    /\ ~isProcessing
    /\ drop.inFlight = 0


(***************************************************************************)
(* Tensor layout.                                                          *)
(***************************************************************************)
\* C22: every preprocessing implementation lays the tensor out by channel, then
\* row, then column: element c * side * side + h * side + w is the normalized
\* value of channel c of the pixel in row h, column w.
C22_ChannelMajor ==
    codec.pc = "done"
    => \A c \in 0..2, h \in 0..(CodecSide - 1), w \in 0..(CodecSide - 1) :
          codec.tensor[c * CodecSide * CodecSide + h * CodecSide + w]
              = Unit(Sample(codec.image, h, w, c))


(***************************************************************************)
(* The Index page.                                                         *)
(***************************************************************************)
C25_Step ==
    /\ (page.pc # "await" /\ page'.pc = "await") => page'.isAnalyzing
    /\ (page.pc = "await" /\ page'.pc = "finished")
          => /\ ~page'.isAnalyzing
             /\ (page.kind = "server" /\ page'.outcome = "error")
                   => page'.result # NoResult

\* C25: handleImageUpload sets isAnalyzing when an authenticated upload starts,
\* and isAnalyzing is false once the handler has finished, whether it succeeded,
\* got response.error or caught an exception; in the page that invokes the server
\* an upload that ended in an error still leaves a (mock) result.
C25_AnalyzingReset ==
    /\ [](page.pc = "finished" => ~page.isAnalyzing)
    /\ [](page.pc = "refused" => ~page.isAnalyzing)
    /\ [][C25_Step]_vars

\* C25 witness: the invoke failed, the page shows the mock result normal/73 and
\* isAnalyzing is false again.
C25_Witness ==
    /\ page.kind = "server"
    /\ page.pc = "finished"
    /\ page.outcome = "error"
    /\ page.result = [prediction |-> NormalLabel, confidence |-> 73]
    /\ ~page.isAnalyzing


(***************************************************************************)
(* TBChatbot.                                                              *)
(***************************************************************************)
C30_Inv ==
    /\ chat.pending \in {0, 1}
    /\ chat.isLoading <=> chat.pending = 1
    /\ chat.isLoading <=> ~chat.messages[Len(chat.messages)].isBot
    /\ \A i \in 1..Len(chat.messages) : chat.messages[i].isBot <=> (i % 2 = 1)
    /\ \A i \in 1..Len(chat.messages) :
          ~chat.messages[i].isBot => Trim(chat.messages[i].text) # <<>>

C30_Step ==
    /\ (chat.isLoading /\ chat'.messages # chat.messages)
          => /\ \E text \in {BotResponse, Apology} :
                   chat'.messages = Append(chat.messages, [isBot |-> TRUE, text |-> text])
             /\ ~chat'.isLoading
    /\ (~chat.isLoading /\ Trim(chat.inputValue) = <<>>)
          => chat'.messages = chat.messages
    /\ (~chat.isLoading /\ chat'.messages # chat.messages)
          => /\ chat'.messages =
                   Append(chat.messages, [isBot |-> FALSE, text |-> chat.inputValue])
             /\ chat'.isLoading

====
